---- MODULE Spec2Model ----
(***************************************************************************)
(* Model of jormungandr's blockchain storage facade                        *)
(* (src/jormungandr/src/blockchain/storage.rs): the forward block stream   *)
(* with its ancestor walk state, the reverse block stream, the branch      *)
(* sender and the closest-ancestor resolver, over a block store that is    *)
(* shared with a writer (put_block) and whose backend may fail.            *)
(***************************************************************************)
EXTENDS Integers, Sequences, FiniteSets, TLC

\* Bound on the number of blocks ever put into the store.
MaxBlocks == 4

\* Bound on the number of backend errors the store returns in one behaviour.
MaxFaults == 1

\* Block hashes are 1..MaxBlocks+1, named in the order the blocks are put, so
\* the largest hash is never stored.  0 is the zero hash (genesis' parent).
Hashes == 1 .. (MaxBlocks + 1)

VARIABLES
    store,      \* store[h]: the parent hash of stored block h (1..Len(store))
    faults,     \* number of backend errors returned so far
    fwd,        \* the forward stream: stream_from_to's result and its pulls
    rev,        \* the reverse stream: stream_from_to_reversed's result and pulls
    snd,        \* the branch sender: send_branch's future and its sink
    fca,        \* find_closest_ancestor's last call and result
    streams,    \* two forward streams opened on clones of the store handle
    logs        \* the leadership logs (leadership::logs::internal::Logs)

vars == <<store, faults, fwd, rev, snd, fca, streams, logs>>

----------------------------------------------------------------------------
(* Results and items *)

Ok(v) == [ok |-> TRUE, val |-> v]

Err(e) == [ok |-> FALSE, err |-> e]

\* An item a stream yields or a sink receives: a block, or an error.
BlockItem(h) == [kind |-> "block", id |-> h, err |-> "none"]

ErrItem(e) == [kind |-> "err", id |-> 0, err |-> e]

----------------------------------------------------------------------------
(* The block store handle (chain_storage::store::BlockStore) *)

Present(h) == h \in 1 .. Len(store)

RECURSIVE DepthOf(_)
\* BlockInfo.depth: 1 for a block whose parent is the zero hash.
DepthOf(h) == IF store[h] = 0 THEN 1 ELSE 1 + DepthOf(store[h])

BlockInfoOf(h) == [block_hash |-> h, depth |-> DepthOf(h), parent_id |-> store[h]]

\* The k-th store call of a handler returns a backend error when k = fault.
Faulty(k, fault, r) == IF fault = k THEN Err("BackendError") ELSE r

get_block_info(h) == IF Present(h) THEN Ok(BlockInfoOf(h)) ELSE Err("BlockNotFound")

\* A block is known by its hash and its header's parent hash.
get_block(h) == IF Present(h) THEN Ok([id |-> h, parent |-> store[h]]) ELSE Err("BlockNotFound")

RECURSIVE NthParent(_, _)
\* The hash n parent links back from h (0 when the chain is shorter).
NthParent(h, n) == IF n = 0 \/ h = 0 THEN h ELSE NthParent(store[h], n - 1)

\* Ok(-1): not an ancestor; Ok(d): ancestor at depth difference d.
is_ancestor(from, to) ==
    IF ~Present(to) \/ ~Present(from) THEN Err("BlockNotFound")
    ELSE IF DepthOf(from) > DepthOf(to) THEN Ok(-1)
    ELSE IF NthParent(to, DepthOf(to) - DepthOf(from)) = from
         THEN Ok(DepthOf(to) - DepthOf(from))
         ELSE Ok(-1)

put_block(parent) == Append(store, parent)

----------------------------------------------------------------------------
(* Ancestor walk state (BlockIterState) *)

NoIter == [to_depth |-> 0, cur_depth |-> 0, pending_infos |-> <<>>]

\* u64 values wrap at this modulus.  TLC's integers are 32 bits wide, so the
\* model keeps 16 of the 64 bits: of a wrapped depth only its order against
\* the stored depths (all at most MaxBlocks + 1) is ever used.
U64Modulus == 65536

wrapping_sub(a, b) == (a - b) % U64Modulus

\* Mutant: the second argument taken for the depth to start at.
BlockIterState_new_at_depth(to_info, distance) ==
    [to_depth |-> to_info.depth,
     cur_depth |-> distance,
     pending_infos |-> <<to_info>>]

BlockIterState_new(to_info, distance) ==
    [to_depth |-> to_info.depth,
     cur_depth |-> wrapping_sub(to_info.depth, distance),
     pending_infos |-> <<to_info>>]

\* Mutant: the walk goes on while the depth has not passed the target's.
has_next_inclusive(s) == s.cur_depth <= s.to_depth

has_next(s) == s.cur_depth < s.to_depth

RECURSIVE Walk(_, _, _, _)
\* The loop of for_path_to_nth_ancestor: look up h (the k-th store call of the
\* handler); with n links still to follow, hand h's info to the callback and
\* go on from its parent.  pushed: the infos given to the callback, in order.
Walk(h, n, k, fault) ==
    LET r == Faulty(k, fault, get_block_info(h)) IN
    IF ~r.ok \/ n = 0 THEN [pushed |-> <<>>, res |-> r]
    ELSE LET w == Walk(r.val.parent_id, n - 1, k + 1, fault)
         IN [pushed |-> <<r.val>> \o w.pushed, res |-> w.res]

for_path_to_nth_ancestor(block_hash, distance, fault) == Walk(block_hash, distance, 1, fault)

\* What a call of get_next leaves: the walk state and the block or the error.
Pulled(s, b) ==
    IF b.ok THEN [state |-> s, kind |-> "block", id |-> b.val.id, err |-> "none"]
    ELSE [state |-> s, kind |-> "err", id |-> 0, err |-> b.err]

Panicked(s) == [state |-> s, kind |-> "panic", id |-> 0, err |-> "none"]

get_next(s, fault) ==
    IF ~has_next(s) THEN Panicked(s)
    ELSE
    LET cur == s.cur_depth + 1
        n == Len(s.pending_infos)
    IN  IF n = 0 THEN Panicked([s EXCEPT !.cur_depth = cur])
        ELSE
        LET block_info == s.pending_infos[n]
            popped == SubSeq(s.pending_infos, 1, n - 1)
        IN  IF block_info.depth = cur
            THEN Pulled([s EXCEPT !.cur_depth = cur, !.pending_infos = popped],
                        Faulty(1, fault, get_block(block_info.block_hash)))
            ELSE IF ~(cur < block_info.depth)
            THEN Panicked([s EXCEPT !.cur_depth = cur, !.pending_infos = popped])
            ELSE
            LET distance == block_info.depth - cur - 1
                w == for_path_to_nth_ancestor(block_info.parent_id, distance, fault)
                s1 == [s EXCEPT !.cur_depth = cur,
                                !.pending_infos = s.pending_infos \o w.pushed]
            IN  IF ~w.res.ok THEN Pulled(s1, w.res)
                ELSE Pulled(s1, Faulty(distance + 2, fault,
                                       get_block(w.res.val.block_hash)))

----------------------------------------------------------------------------
(* Forward stream (Storage::stream_from_to, BlockStream) *)

\* Mutant: Ok(None) of the ancestry query not turned into CannotIterate.
stream_from_to_unchecked(from, to, fault) ==
    LET a == Faulty(1, fault, is_ancestor(from, to)) IN
    IF ~a.ok THEN Err(a.err)
    ELSE LET to_info == Faulty(2, fault, get_block_info(to)) IN
         IF ~to_info.ok THEN Err(to_info.err)
         ELSE Ok(BlockIterState_new(to_info.val, IF a.val = -1 THEN 0 ELSE a.val))

stream_from_to(from, to, fault) ==
    LET a == Faulty(1, fault, is_ancestor(from, to)) IN
    IF ~a.ok THEN Err(a.err)
    ELSE IF a.val = -1 THEN Err("CannotIterate")
    ELSE LET to_info == Faulty(2, fault, get_block_info(to)) IN
         IF ~to_info.ok THEN Err(to_info.err)
         ELSE Ok(BlockIterState_new(to_info.val, a.val))

\* Mutant: the stream ends one block before the target.
BlockStream_poll_stops_short(s, fault) ==
    IF ~(s.cur_depth + 1 < s.to_depth)
    THEN [state |-> s, kind |-> "end", id |-> 0, err |-> "none"]
    ELSE get_next(s, fault)

BlockStream_poll(s, fault) ==
    IF ~has_next(s) THEN [state |-> s, kind |-> "end", id |-> 0, err |-> "none"]
    ELSE get_next(s, fault)

\* The item a pull hands to the caller.
ItemOf(p) == IF p.kind = "block" THEN BlockItem(p.id) ELSE ErrItem(p.err)

FaultCount(e) == IF e = "BackendError" THEN 1 ELSE 0

FaultChoices == 0 .. (MaxBlocks + 1)

----------------------------------------------------------------------------
(* Reverse stream (Storage::stream_from_to_reversed, BlockStreamReversed) *)

\* to = 0 stands for None (no stop hash).
BlockStreamReversed_new(from, to) == [last_block |-> from, to |-> to, finished |-> FALSE]

stream_from_to_reversed(from, to, fault) ==
    LET a == IF to # 0 THEN Faulty(1, fault, is_ancestor(from, to)) ELSE Ok(0) IN
    IF ~a.ok THEN Err(a.err)
    ELSE IF a.val = -1 THEN Err("CannotIterate")
    ELSE Ok(BlockStreamReversed_new(from, to))

\* Mutant: the walk to genesis stops one block early (depth > 2 for depth > 1).
BlockStreamReversed_poll_early(s, fault) ==
    IF s.finished THEN [state |-> s, kind |-> "end", id |-> 0, err |-> "none"]
    ELSE
    LET r == Faulty(1, fault, get_block(s.last_block)) IN
    IF ~r.ok THEN Pulled(s, r)
    ELSE
    LET block == r.val
        s1 == IF s.to # 0
              THEN (IF s.to = s.last_block THEN [s EXCEPT !.finished = TRUE] ELSE s)
              ELSE IF DepthOf(block.id) > 2
              THEN [s EXCEPT !.last_block = block.parent]
              ELSE [s EXCEPT !.finished = TRUE]
    IN  Pulled(s1, r)

BlockStreamReversed_poll(s, fault) ==
    IF s.finished THEN [state |-> s, kind |-> "end", id |-> 0, err |-> "none"]
    ELSE
    LET r == Faulty(1, fault, get_block(s.last_block)) IN
    IF ~r.ok THEN Pulled(s, r)
    ELSE
    LET block == r.val
        s1 == IF s.to # 0
              THEN (IF s.to = s.last_block THEN [s EXCEPT !.finished = TRUE] ELSE s)
              ELSE IF DepthOf(block.id) > 1
              THEN [s EXCEPT !.last_block = block.parent]
              ELSE [s EXCEPT !.finished = TRUE]
    IN  Pulled(s1, r)

----------------------------------------------------------------------------
(* Branch sender (Storage::send_branch, SendState) *)

\* The sink is the caller's: each of its operations may answer Ready, NotReady
\* or Err.  Every operator below gives the set of outcomes [st, res, err] of a
\* call, one for each way the sink may answer.
SinkAnswers == {"Ready", "NotReady", "Err"}

Outcome(st, res, err) == [st |-> st, res |-> res, err |-> err]

\* The sender's history: what the sink and the walk did, in order.  "accept",
\* "flush" and "close" are Ready answers of start_send, poll_complete and
\* close, "fail" is an Err answer of any of them, "fetch" is a call of get_next.
Logged(st, event) == [st EXCEPT !.log = Append(st.log, event)]

\* Sink::start_send: a Ready sink has accepted the item.
start_send(st, item) ==
    { Outcome(IF a = "Ready" THEN Logged([st EXCEPT !.sent = Append(st.sent, item)], "accept")
              ELSE IF a = "Err" THEN Logged(st, "fail") ELSE st,
              a, "none") : a \in SinkAnswers }

\* Sink::poll_complete.
poll_complete(st) ==
    { Outcome(IF a = "Ready" THEN Logged(st, "flush")
              ELSE IF a = "Err" THEN Logged(st, "fail") ELSE st,
              a, "none") : a \in SinkAnswers }

\* Sink::close: a Ready close has closed the sink.
close(st) ==
    { Outcome(IF a = "Ready" THEN Logged([st EXCEPT !.closed = TRUE], "close")
              ELSE IF a = "Err" THEN Logged(st, "fail") ELSE st,
              a, "none") : a \in SinkAnswers }

\* Mutant: the sink is not flushed before the loop goes on to the next fetch.
poll_continue_unflushed(st) ==
    LET resent == IF st.pending = <<>> THEN {Outcome(st, "Ready", "none")}
                  ELSE { IF r.res = "NotReady" THEN Outcome(st, "NotReady", "none") ELSE r :
                           r \in start_send([st EXCEPT !.pending = <<>>], st.pending[1]) }
    IN  UNION { IF p.res # "Ready" THEN {p}
                ELSE IF has_next(p.st.iter)
                THEN {Outcome(p.st, "true", "none")}
                ELSE { Outcome(c.st, IF c.res = "Ready" THEN "false" ELSE c.res, "none") :
                         c \in close(p.st) } :
                p \in resent }

\* Mutant: with the walk exhausted the sink is flushed but never closed.
poll_continue_never_closes(st) ==
    LET resent == IF st.pending = <<>> THEN {Outcome(st, "Ready", "none")}
                  ELSE { IF r.res = "NotReady" THEN Outcome(st, "NotReady", "none") ELSE r :
                           r \in start_send([st EXCEPT !.pending = <<>>], st.pending[1]) }
    IN  UNION { IF p.res # "Ready" THEN {p}
                ELSE IF has_next(p.st.iter)
                THEN { Outcome(f.st, IF f.res = "Ready" THEN "true" ELSE f.res, "none") :
                         f \in poll_complete(p.st) }
                ELSE {Outcome(p.st, "NotReady", "none")} :
                p \in resent }

\* SendState::poll_continue.  res: "true" / "false" (Ready), "NotReady", "Err".
poll_continue(st) ==
    LET resent == IF st.pending = <<>> THEN {Outcome(st, "Ready", "none")}
                  ELSE { IF r.res = "NotReady" THEN Outcome(st, "NotReady", "none") ELSE r :
                           r \in start_send([st EXCEPT !.pending = <<>>], st.pending[1]) }
    IN  UNION { IF p.res # "Ready" THEN {p}
                ELSE IF has_next(p.st.iter)
                THEN { Outcome(f.st, IF f.res = "Ready" THEN "true" ELSE f.res, "none") :
                         f \in poll_complete(p.st) }
                ELSE { Outcome(c.st, IF c.res = "Ready" THEN "false" ELSE c.res, "none") :
                         c \in close(p.st) } :
                p \in resent }

\* Mutant: an item the sink was not ready for is not kept for the next poll.
fill_sink_forgets(st, fault) ==
    LET g == get_next(st.iter, fault)
        st1 == Logged([st EXCEPT !.iter = g.state], "fetch")
    IN  IF g.kind = "panic" THEN {Outcome(st1, "panic", "none")}
        ELSE { IF r.res = "Ready"
               THEN Outcome(r.st, IF has_next(st1.iter) THEN "NotReady" ELSE "Ready", g.err)
               ELSE IF r.res = "NotReady"
               THEN Outcome(st1, "NotReady", g.err)
               ELSE Outcome(r.st, "Err", g.err) :
               r \in start_send(st1, ItemOf(g)) }

\* Mutant: an error of the walk fails the send instead of being sent.
fill_sink_aborts(st, fault) ==
    LET g == get_next(st.iter, fault)
        st1 == Logged([st EXCEPT !.iter = g.state], "fetch")
    IN  IF g.kind = "panic" THEN {Outcome(st1, "panic", "none")}
        ELSE IF g.kind = "err" THEN {Outcome(st1, "Err", g.err)}
        ELSE { IF r.res = "Ready"
               THEN Outcome(r.st, IF has_next(st1.iter) THEN "NotReady" ELSE "Ready", g.err)
               ELSE IF r.res = "NotReady"
               THEN Outcome([st1 EXCEPT !.pending = <<ItemOf(g)>>], "NotReady", g.err)
               ELSE Outcome(r.st, "Err", g.err) :
               r \in start_send(st1, ItemOf(g)) }

\* SendState::fill_sink.  res: "Ready", "NotReady", "Err", "panic".  The loop
\* body returns on every path, so it runs once.
fill_sink(st, fault) ==
    LET g == get_next(st.iter, fault)
        st1 == Logged([st EXCEPT !.iter = g.state], "fetch")
    IN  IF g.kind = "panic" THEN {Outcome(st1, "panic", "none")}
        ELSE { IF r.res = "Ready"
               THEN Outcome(r.st, IF has_next(st1.iter) THEN "NotReady" ELSE "Ready", g.err)
               ELSE IF r.res = "NotReady"
               THEN Outcome([st1 EXCEPT !.pending = <<ItemOf(g)>>], "NotReady", g.err)
               ELSE Outcome(r.st, "Err", g.err) :
               r \in start_send(st1, ItemOf(g)) }

\* One poll of the future of send_branch's Ok arm:
\*   while try_ready!(state.poll_continue()) { try_ready!(state.fill_sink(..)) }
\* fill_sink is Ready only when the walk is exhausted, so the loop body runs at
\* most once in a poll and is then followed by one more poll_continue.
send_branch_poll(st, fault) ==
    UNION { IF c1.res = "false" THEN {Outcome(c1.st, "Ready", "none")}
            ELSE IF c1.res # "true" THEN {c1}
            ELSE UNION { IF f.res # "Ready" THEN {f}
                         ELSE { Outcome(c2.st, IF c2.res = "false" THEN "Ready" ELSE c2.res,
                                        f.err) : c2 \in poll_continue(f.st) } :
                         f \in fill_sink(c1.st, fault) } :
            c1 \in poll_continue(st) }

\* One poll of the future of send_branch's Err arm,
\*   sink.send_all(stream::once(Ok(Err(e.into())))):
\* the one item is offered until the sink accepts it, then the sink is closed.
send_all_poll(st) ==
    LET offered == IF st.pending # <<>> THEN st.pending ELSE st.once
        taken == [st EXCEPT !.pending = <<>>, !.once = <<>>]
        sends == IF offered = <<>> THEN {Outcome(st, "Ready", "none")}
                 ELSE { IF r.res = "NotReady"
                        THEN Outcome([taken EXCEPT !.pending = offered], "NotReady", "none")
                        ELSE r : r \in start_send(taken, offered[1]) }
    IN  UNION { IF p.res # "Ready" THEN {p} ELSE close(p.st) : p \in sends }

NoSendState ==
    [mode |-> "none", iter |-> NoIter, pending |-> <<>>, once |-> <<>>,
     sent |-> <<>>, closed |-> FALSE, log |-> <<>>]

\* Mutant: the Err arm only closes the sink, the error is not sent.
send_branch_silent(to, depth, checked, fault) ==
    LET res == Faulty(1, fault, get_block_info(to)) IN
    IF ~res.ok
    THEN [st |-> [NoSendState EXCEPT !.mode = "error"],
          res |-> "NotReady", err |-> res.err]
    ELSE
    LET to_info == res.val
        distance == IF depth = -1 THEN to_info.depth - 1 ELSE depth
    IN  IF checked /\ distance > to_info.depth
        THEN [st |-> NoSendState, res |-> "panic", err |-> "none"]
        ELSE [st |-> [NoSendState EXCEPT !.mode = "branch",
                                         !.iter = BlockIterState_new(to_info, distance)],
              res |-> "NotReady", err |-> "none"]

\* Mutant: depth None walks back the target's whole depth (genesis included).
send_branch_whole_chain(to, depth, checked, fault) ==
    LET res == Faulty(1, fault, get_block_info(to)) IN
    IF ~res.ok
    THEN [st |-> [NoSendState EXCEPT !.mode = "error", !.once = <<ErrItem(res.err)>>],
          res |-> "NotReady", err |-> res.err]
    ELSE
    LET to_info == res.val
        distance == IF depth = -1 THEN to_info.depth ELSE depth
    IN  IF checked /\ distance > to_info.depth
        THEN [st |-> NoSendState, res |-> "panic", err |-> "none"]
        ELSE [st |-> [NoSendState EXCEPT !.mode = "branch",
                                         !.iter = BlockIterState_new(to_info, distance)],
              res |-> "NotReady", err |-> "none"]

\* send_branch up to the future it returns.  depth = -1 stands for None.  With
\* overflow checks (checked) the subtraction in BlockIterState::new panics
\* when it underflows; without them it wraps.
send_branch(to, depth, checked, fault) ==
    LET res == Faulty(1, fault, get_block_info(to)) IN
    IF ~res.ok
    THEN [st |-> [NoSendState EXCEPT !.mode = "error", !.once = <<ErrItem(res.err)>>],
          res |-> "NotReady", err |-> res.err]
    ELSE
    LET to_info == res.val
        distance == IF depth = -1 THEN to_info.depth - 1 ELSE depth
    IN  IF checked /\ distance > to_info.depth
        THEN [st |-> NoSendState, res |-> "panic", err |-> "none"]
        ELSE [st |-> [NoSendState EXCEPT !.mode = "branch",
                                         !.iter = BlockIterState_new(to_info, distance)],
              res |-> "NotReady", err |-> "none"]

----------------------------------------------------------------------------
(* Closest-ancestor resolver (Storage::find_closest_ancestor) *)

\* Bound on the number of checkpoints in one call.
MaxCheckpoints == 2

\* std::u64::MAX
U64Max == U64Modulus - 1

\* Option<Ancestor>: None, or Some(Ancestor { header_hash, distance }).
NoAncestor == [some |-> FALSE, header_hash |-> 0, distance |-> 0]

SomeAncestor(h, d) == [some |-> TRUE, header_hash |-> h, distance |-> d]

\* Mutant: a later checkpoint at the same distance replaces the current best.
closer_or_equal(closest_found, distance) == closest_found >= distance

\* if closest_found > distance
closer(closest_found, distance) == closest_found > distance

\* What the loop holds in `ancestor` and `closest_found`, with the iteration
\* that assigned them last (at = 0: never assigned).
Best(ancestor, closest_found, at) ==
    [found |-> IF ancestor = 0 THEN NoAncestor ELSE SomeAncestor(ancestor, closest_found),
     at |-> at]

RECURSIVE find_closest_loop(_, _, _, _, _, _, _)
\* The for loop from its i-th iteration on; ancestor = 0 stands for None.  The
\* i-th ancestry query is the call's i-th use of the store.
find_closest_loop(checkpoints, i, descendant, ancestor, closest_found, at, fault) ==
    IF i > Len(checkpoints)
    THEN Ok(Best(ancestor, closest_found, at))
    ELSE
    LET checkpoint == checkpoints[i]
        r == Faulty(i, fault, is_ancestor(checkpoint, descendant))
    IN  IF r.ok
        THEN IF r.val # -1 /\ closer(closest_found, r.val)
             THEN find_closest_loop(checkpoints, i + 1, descendant, checkpoint, r.val, i,
                                    fault)
             ELSE find_closest_loop(checkpoints, i + 1, descendant, ancestor,
                                    closest_found, at, fault)
        ELSE IF r.err = "BlockNotFound"
        THEN find_closest_loop(checkpoints, i + 1, descendant, ancestor,
                               closest_found, at, fault)
        ELSE Err(r.err)

RECURSIVE find_closest_loop_lenient(_, _, _, _, _, _, _)
\* Mutant loop: every error of an ancestry query is ignored, not only NotFound.
find_closest_loop_lenient(checkpoints, i, descendant, ancestor, closest_found, at, fault) ==
    IF i > Len(checkpoints)
    THEN Ok(Best(ancestor, closest_found, at))
    ELSE
    LET checkpoint == checkpoints[i]
        r == Faulty(i, fault, is_ancestor(checkpoint, descendant))
    IN  IF r.ok /\ r.val # -1 /\ closer(closest_found, r.val)
        THEN find_closest_loop_lenient(checkpoints, i + 1, descendant, checkpoint, r.val,
                                       i, fault)
        ELSE find_closest_loop_lenient(checkpoints, i + 1, descendant, ancestor,
                                       closest_found, at, fault)

\* Mutant: closest_found starts at 0 instead of u64::MAX.
find_closest_ancestor_from_zero(checkpoints, descendant, fault) ==
    find_closest_loop(checkpoints, 1, descendant, 0, 0, 0, fault)

\* Mutant: a store failure during an ancestry query is skipped like NotFound.
find_closest_ancestor_lenient(checkpoints, descendant, fault) ==
    find_closest_loop_lenient(checkpoints, 1, descendant, 0, U64Max, 0, fault)

find_closest_ancestor(checkpoints, descendant, fault) ==
    find_closest_loop(checkpoints, 1, descendant, 0, U64Max, 0, fault)

FwdInit ==
    [status |-> "idle", from |-> 0, to |-> 0, err |-> "none",
     state |-> NoIter, out |-> <<>>, ended |-> FALSE]

\* A stream that never finishes is pulled at most this many times.
PullCap == MaxBlocks + MaxFaults + 1

RevInit ==
    [status |-> "idle", from |-> 0, to |-> 0, err |-> "none",
     state |-> BlockStreamReversed_new(0, 0), out |-> <<>>, ended |-> FALSE]

SndInit == [status |-> "idle", to |-> 0, depth |-> 0, err |-> "none", st |-> NoSendState]

----------------------------------------------------------------------------
(* Leadership logs (leadership::logs::internal::Logs) *)

\* Bound on the number of distinct LeadershipLogId values.
MaxLogIds == 1

\* Bound on the clock: time runs from 0 to MaxTime.
MaxTime == 4

\* Bound on the number of insert calls (each takes a new DelayQueue key).
MaxInserts == 2

\* The `ttl` given to Logs::new, in ticks of the clock.
Ttl == 2

LogIds == 1 .. MaxLogIds

\* A LeadershipLog as the registry changes it: mark_wake, set_status and
\* mark_finished each set one field.
NewLog == [woke |-> FALSE, status |-> "Pending", finished |-> FALSE]

\* HashMap::get of an id with no entry.
NoEntry == [present |-> FALSE, key |-> 0, log |-> NewLog, promised |-> 0]

\* The entry (log, key) of an id.  `promised` is the time Logs::new's comment
\* promises the log lives to: its scheduled time plus ttl, and ttl after each
\* change.
NewEntry(key, promised) ==
    [present |-> TRUE, key |-> key, log |-> NewLog, promised |-> promised]

Later(a, b) == IF a >= b THEN a ELSE b

\* DelayQueue::insert(id, timeout): the value expires `timeout` from now.
delay_queue_insert(expirations, key, id, now, timeout) ==
    expirations \cup {[key |-> key, id |-> id, at |-> now + timeout]}

\* DelayQueue::reset_at(key, when).
delay_queue_reset_at(expirations, key, when) ==
    { IF e.key = key THEN [e EXCEPT !.at = when] ELSE e : e \in expirations }

\* The values DelayQueue::poll_next yields before Pending or None.
Expired(expirations, now) == { e \in expirations : e.at <= now }

LogsInit ==
    [now |-> 0, entries |-> [id \in LogIds |-> NoEntry], expirations |-> {},
     next_key |-> 1, handles |-> {}, status |-> "ok"]

\* internal::Logs::insert, and the handle Logs::insert returns for the id.
Logs_insert(l, id, scheduled) ==
    LET minimal_duration == IF l.now < scheduled THEN scheduled - l.now ELSE 0
        ttl == minimal_duration + Ttl
    IN  [l EXCEPT !.entries[id] = NewEntry(l.next_key, Later(l.now, scheduled) + Ttl),
                  !.expirations = delay_queue_insert(l.expirations, l.next_key, id, l.now, ttl),
                  !.next_key = l.next_key + 1,
                  !.handles = l.handles \cup {id}]

\* The common shape of mark_wake, set_status and mark_finished: change the
\* log and reset its expiration, or unimplemented!() when the id has no entry.
Logs_change(l, id, log) ==
    IF l.entries[id].present
    THEN [l EXCEPT !.entries[id].log = log,
                   !.entries[id].promised = Later(l.entries[id].promised, l.now + Ttl),
                   !.expirations = delay_queue_reset_at(l.expirations, l.entries[id].key,
                                                        l.now + Ttl)]
    ELSE [l EXCEPT !.status = "panicked"]

Logs_mark_wake(l, id) == Logs_change(l, id, [l.entries[id].log EXCEPT !.woke = TRUE])

Logs_set_status(l, id, status) ==
    Logs_change(l, id, [l.entries[id].log EXCEPT !.status = status])

Logs_mark_finished(l, id) ==
    Logs_change(l, id, [l.entries[id].log EXCEPT !.finished = TRUE])

\* internal::Logs::poll_purge: every expired value is taken off the queue and
\* the entry of its id removed.
Logs_poll_purge(l) ==
    LET expired == Expired(l.expirations, l.now)
        ids == { e.id : e \in expired }
    IN  [l EXCEPT !.entries = [id \in LogIds |-> IF id \in ids THEN NoEntry ELSE l.entries[id]],
                  !.expirations = l.expirations \ expired]

FcaInit ==
    [status |-> "idle", checkpoints |-> <<>>, descendant |-> 0, err |-> "none",
     found |-> NoAncestor, at |-> 0, fault |-> 0]

Init ==
    /\ store = <<0>>
    /\ faults = 0
    /\ fwd = FwdInit
    /\ rev = RevInit
    /\ snd = SndInit
    /\ fca = FcaInit
    /\ streams = <<FwdInit, FwdInit>>
    /\ logs = LogsInit

\* Storage::put_block by any holder of the store handle: a new block whose
\* parent is the zero hash or a stored block.
PutBlock ==
    /\ Len(store) < MaxBlocks
    /\ \E parent \in 0 .. Len(store) : store' = put_block(parent)
    /\ UNCHANGED <<faults, fwd, rev, snd, fca, streams, logs>>

StreamFromTo ==
    /\ fwd.status = "idle"
    /\ \E from \in Hashes, to \in Hashes, fault \in 0 .. 2 :
        LET r == stream_from_to(from, to, fault) IN
        /\ faults + FaultCount(IF r.ok THEN "none" ELSE r.err) <= MaxFaults
        /\ faults' = faults + FaultCount(IF r.ok THEN "none" ELSE r.err)
        /\ fwd' = IF r.ok
                  THEN [fwd EXCEPT !.status = "open", !.from = from, !.to = to,
                                   !.state = r.val]
                  ELSE [fwd EXCEPT !.status = "failed", !.from = from, !.to = to,
                                   !.err = r.err]
    /\ UNCHANGED <<store, rev, snd, fca, streams, logs>>

PollBlockStream ==
    /\ fwd.status = "open"
    /\ \E fault \in FaultChoices :
        LET p == BlockStream_poll(fwd.state, fault) IN
        /\ faults + FaultCount(p.err) <= MaxFaults
        /\ faults' = faults + FaultCount(p.err)
        /\ fwd' = IF p.kind = "end" THEN [fwd EXCEPT !.ended = TRUE]
                  ELSE IF p.kind = "panic"
                  THEN [fwd EXCEPT !.status = "panicked", !.state = p.state]
                  ELSE [fwd EXCEPT !.state = p.state,
                                   !.out = Append(fwd.out, ItemOf(p))]
    /\ UNCHANGED <<store, rev, snd, fca, streams, logs>>

NextFwd == PutBlock \/ StreamFromTo \/ PollBlockStream

SpecFwd == Init /\ [][NextFwd]_vars

\* stream_from_to by the holder of the i-th clone of the store handle.
StreamFromToAt(i) ==
    /\ streams[i].status = "idle"
    /\ \E from \in Hashes, to \in Hashes, fault \in 0 .. 2 :
        LET r == stream_from_to(from, to, fault) IN
        /\ faults + FaultCount(IF r.ok THEN "none" ELSE r.err) <= MaxFaults
        /\ faults' = faults + FaultCount(IF r.ok THEN "none" ELSE r.err)
        /\ streams' = [streams EXCEPT ![i] =
                          IF r.ok
                          THEN [@ EXCEPT !.status = "open", !.from = from, !.to = to,
                                         !.state = r.val]
                          ELSE [@ EXCEPT !.status = "failed", !.from = from, !.to = to,
                                         !.err = r.err]]
    /\ UNCHANGED <<store, fwd, rev, snd, fca, logs>>

\* A pull of the i-th stream: BlockStream::poll on the state it owns.
PollBlockStreamAt(i) ==
    /\ streams[i].status = "open"
    /\ \E fault \in FaultChoices :
        LET p == BlockStream_poll(streams[i].state, fault) IN
        /\ faults + FaultCount(p.err) <= MaxFaults
        /\ faults' = faults + FaultCount(p.err)
        /\ streams' = [streams EXCEPT ![i] =
                          IF p.kind = "end" THEN [@ EXCEPT !.ended = TRUE]
                          ELSE IF p.kind = "panic"
                          THEN [@ EXCEPT !.status = "panicked", !.state = p.state]
                          ELSE [@ EXCEPT !.state = p.state,
                                         !.out = Append(streams[i].out, ItemOf(p))]]
    /\ UNCHANGED <<store, fwd, rev, snd, fca, logs>>

\* Bound on the number of blocks stored while two streams run.
MaxStreamBlocks == 3

\* Two streams whose owners run in any order, with blocks still being stored.
NextStreams ==
    \/ (Len(store) < MaxStreamBlocks /\ PutBlock)
    \/ \E i \in 1 .. 2 : StreamFromToAt(i)
    \/ \E i \in 1 .. 2 : PollBlockStreamAt(i)

SpecStreams == Init /\ [][NextStreams]_vars

StreamFromToReversed ==
    /\ rev.status = "idle"
    /\ \E from \in Hashes, to \in {0} \cup Hashes, fault \in 0 .. 1 :
        LET r == stream_from_to_reversed(from, to, fault) IN
        /\ faults + FaultCount(IF r.ok THEN "none" ELSE r.err) <= MaxFaults
        /\ faults' = faults + FaultCount(IF r.ok THEN "none" ELSE r.err)
        /\ rev' = IF r.ok
                  THEN [rev EXCEPT !.status = "open", !.from = from, !.to = to,
                                   !.state = r.val]
                  ELSE [rev EXCEPT !.status = "failed", !.from = from, !.to = to,
                                   !.err = r.err]
    /\ UNCHANGED <<store, fwd, snd, fca, streams, logs>>

PollBlockStreamReversed ==
    /\ rev.status = "open"
    /\ Len(rev.out) < PullCap
    /\ \E fault \in 0 .. 1 :
        LET p == BlockStreamReversed_poll(rev.state, fault) IN
        /\ faults + FaultCount(p.err) <= MaxFaults
        /\ faults' = faults + FaultCount(p.err)
        /\ rev' = IF p.kind = "end" THEN [rev EXCEPT !.ended = TRUE]
                  ELSE [rev EXCEPT !.state = p.state,
                                   !.out = Append(rev.out, ItemOf(p))]
    /\ UNCHANGED <<store, fwd, snd, fca, streams, logs>>

NextRev == PutBlock \/ StreamFromToReversed \/ PollBlockStreamReversed

SpecRev == Init /\ [][NextRev]_vars

\* What a poll's result makes of the sender.
StatusAfter(res) ==
    IF res = "Ready" THEN "done"
    ELSE IF res = "Err" THEN "failed"
    ELSE IF res = "panic" THEN "panicked"
    ELSE "running"

SendBranch ==
    /\ snd.status = "idle"
    /\ \E to \in Hashes, depth \in -1 .. (MaxBlocks + 1), checked \in BOOLEAN,
          fault \in 0 .. 1 :
        LET r == send_branch(to, depth, checked, fault) IN
        /\ faults + FaultCount(r.err) <= MaxFaults
        /\ faults' = faults + FaultCount(r.err)
        /\ snd' = [status |-> StatusAfter(r.res), to |-> to, depth |-> depth,
                   err |-> r.err, st |-> r.st]
    /\ UNCHANGED <<store, fwd, rev, fca, streams, logs>>

PollSendBranch ==
    /\ snd.status = "running" /\ snd.st.mode = "branch"
    /\ \E fault \in FaultChoices :
        \E r \in send_branch_poll(snd.st, fault) :
            /\ faults + FaultCount(r.err) <= MaxFaults
            /\ faults' = faults + FaultCount(r.err)
            /\ snd' = [snd EXCEPT !.status = StatusAfter(r.res), !.st = r.st]
    /\ UNCHANGED <<store, fwd, rev, fca, streams, logs>>

PollSendError ==
    /\ snd.status = "running" /\ snd.st.mode = "error"
    /\ \E r \in send_all_poll(snd.st) :
        snd' = [snd EXCEPT !.status = StatusAfter(r.res), !.st = r.st]
    /\ UNCHANGED <<store, faults, fwd, rev, fca, streams, logs>>

NextSnd == PutBlock \/ SendBranch \/ PollSendBranch \/ PollSendError

SpecSnd == Init /\ [][NextSnd]_vars

\* The send future walks a branch and has not completed.
BranchRunning == snd.status = "running" /\ snd.st.mode = "branch"

\* WF_vars(PollSendBranch) with its two parts written out as predicates that
\* cost one comparison each: a poll that changes the sender's state is
\* enabled exactly while the send is running (a Ready answer always adds to
\* the history), and a step of NextSnd is such a poll exactly when it changes
\* the state of a running send.
BranchPollFairness ==
    \/ []<>(~BranchRunning)
    \/ []<><<BranchRunning /\ snd'.st # snd.st>>_vars

\* The two equalities BranchPollFairness rests on.
BranchPollEnabled == BranchRunning <=> ENABLED <<PollSendBranch>>_vars

BranchPollSteps == [][(BranchRunning /\ snd'.st # snd.st) <=> <<PollSendBranch>>_vars]_vars

\* The sender under the fairness its termination is claimed for: the task is
\* polled again until the future completes, and the sink does not answer
\* NotReady for ever, so a poll that changes the sender's state keeps coming.
SpecSndFair ==
    /\ SpecSnd
    /\ BranchPollFairness
    /\ WF_vars(PollSendError)

\* The checkpoint lists a peer may send: up to MaxCheckpoints hashes.
CheckpointLists == UNION { [1 .. n -> Hashes] : n \in 0 .. MaxCheckpoints }

FindClosestAncestor ==
    /\ fca.status = "idle"
    /\ \E checkpoints \in CheckpointLists, descendant \in Hashes :
        \E fault \in 0 .. Len(checkpoints) :
        LET r == find_closest_ancestor(checkpoints, descendant, fault) IN
        /\ faults + FaultCount(IF r.ok THEN "none" ELSE r.err) <= MaxFaults
        /\ faults' = faults + FaultCount(IF r.ok THEN "none" ELSE r.err)
        /\ fca' = [status |-> IF r.ok THEN "returned" ELSE "failed",
                   checkpoints |-> checkpoints, descendant |-> descendant,
                   err |-> IF r.ok THEN "none" ELSE r.err,
                   found |-> IF r.ok THEN r.val.found ELSE NoAncestor,
                   at |-> IF r.ok THEN r.val.at ELSE 0,
                   fault |-> fault]
    /\ UNCHANGED <<store, fwd, rev, snd, streams, logs>>

\* find_closest_ancestor is one synchronous call: the store is filled before it
\* and the behaviour ends with its result.
NextFca == (fca.status = "idle" /\ PutBlock) \/ FindClosestAncestor

SpecFca == Init /\ [][NextFca]_vars

\* Time passes.
Tick ==
    /\ logs.status = "ok" /\ logs.now < MaxTime
    /\ logs' = [logs EXCEPT !.now = logs.now + 1]
    /\ UNCHANGED <<store, faults, fwd, rev, snd, fca, streams>>

LogsInsert ==
    /\ logs.status = "ok" /\ logs.next_key <= MaxInserts
    /\ \E id \in LogIds, scheduled \in 0 .. MaxTime :
          logs' = Logs_insert(logs, id, scheduled)
    /\ UNCHANGED <<store, faults, fwd, rev, snd, fca, streams>>

\* LeadershipLogHandle::mark_wake by the holder of a handle.
LogsMarkWake ==
    /\ logs.status = "ok"
    /\ \E id \in logs.handles : logs' = Logs_mark_wake(logs, id)
    /\ UNCHANGED <<store, faults, fwd, rev, snd, fca, streams>>

LogsSetStatus ==
    /\ logs.status = "ok"
    /\ \E id \in logs.handles, status \in {"Rejected", "Block"} :
          logs' = Logs_set_status(logs, id, status)
    /\ UNCHANGED <<store, faults, fwd, rev, snd, fca, streams>>

LogsMarkFinished ==
    /\ logs.status = "ok"
    /\ \E id \in logs.handles : logs' = Logs_mark_finished(logs, id)
    /\ UNCHANGED <<store, faults, fwd, rev, snd, fca, streams>>

LogsPollPurge ==
    /\ logs.status = "ok"
    /\ logs' = Logs_poll_purge(logs)
    /\ UNCHANGED <<store, faults, fwd, rev, snd, fca, streams>>

NextLogs ==
    \/ Tick \/ LogsInsert \/ LogsMarkWake \/ LogsSetStatus \/ LogsMarkFinished
    \/ LogsPollPurge

SpecLogs == Init /\ [][NextLogs]_vars

----------------------------------------------------------------------------
(* Reference definitions the claims are stated with: the parent chain read *)
(* off the store directly, not through the walk.                           *)

RECURSIVE ChainSet(_)
\* The blocks reached from h by following parent links, h included.
ChainSet(h) == IF h = 0 THEN {} ELSE {h} \cup ChainSet(store[h])

\* a is on d's parent chain (a block counts as its own ancestor at distance 0).
IsAncestorOf(a, d) == Present(a) /\ Present(d) /\ a \in ChainSet(d)

RECURSIVE ChainUp(_, _)
\* The d blocks that end with `to` on its parent chain, shallowest first.
ChainUp(to, d) == IF d = 0 \/ to = 0 THEN <<>> ELSE Append(ChainUp(store[to], d - 1), to)

NoErrItem(items) == \A i \in 1 .. Len(items) : items[i].kind = "block"

IsPrefix(a, b) == Len(a) <= Len(b) /\ \A i \in 1 .. Len(a) : a[i] = b[i]

BlockItems(hs) == [i \in 1 .. Len(hs) |-> BlockItem(hs[i])]

----------------------------------------------------------------------------
(* Claims on the forward stream, checked under SpecFwd *)

\* C1: a stream returned by stream_from_to for from an ancestor of to at
\* distance d, pulled without a store error, yields exactly d blocks and then
\* end-of-sequence: the blocks are those of to's parent chain at depths
\* depth(to)-d+1 .. depth(to), in increasing depth, the last one being to.
C1_ForwardYieldsRange ==
    (fwd.status \in {"open", "panicked"} /\ NoErrItem(fwd.out)) =>
        LET d == DepthOf(fwd.to) - DepthOf(fwd.from)
            expected == BlockItems(ChainUp(fwd.to, d))
        IN  /\ fwd.status = "open"
            /\ IsPrefix(fwd.out, expected)
            /\ \A i \in 1 .. Len(fwd.out) :
                   DepthOf(fwd.out[i].id) = DepthOf(fwd.to) - d + i
            /\ Len(fwd.out) = d <=> ~has_next(fwd.state)
            /\ fwd.ended => fwd.out = expected
            /\ (fwd.ended /\ d > 0) => fwd.out[d].id = fwd.to

\* C1 witness: a stream over a range of three blocks has been pulled to its end.
C1_Witness ==
    /\ fwd.status = "open" /\ fwd.ended /\ NoErrItem(fwd.out)
    /\ Len(fwd.out) = 3 /\ fwd.out[3].id = fwd.to

\* C4: stream_from_to returns a stream only when from is an ancestor of to; when
\* from or to is not in the store it fails with BlockNotFound, and when both
\* are stored and from is not an ancestor of to it fails with CannotIterate
\* (a backend error of the store apart).
C4_StreamFromToErrors ==
    [][(fwd.status = "idle" /\ fwd'.status # "idle") =>
          LET from == fwd'.from
              to == fwd'.to
              resolved == Present(from) /\ Present(to)
          IN  /\ fwd'.status = "open" => IsAncestorOf(from, to)
              /\ (fwd'.status = "failed" /\ fwd'.err # "BackendError") =>
                    /\ ~IsAncestorOf(from, to)
                    /\ fwd'.err = (IF resolved THEN "CannotIterate" ELSE "BlockNotFound")
              /\ (~resolved /\ fwd'.status = "failed") =>
                    fwd'.err \in {"BlockNotFound", "BackendError"}
              /\ ~resolved => fwd'.status = "failed"
              /\ (resolved /\ ~IsAncestorOf(from, to)) => fwd'.status = "failed"]_vars

\* C4 witness: a call with two stored blocks on different branches was
\* refused with CannotIterate.
C4_Witness ==
    /\ fwd.status = "failed" /\ fwd.err = "CannotIterate"
    /\ Present(fwd.from) /\ Present(fwd.to)
    /\ DepthOf(fwd.from) < DepthOf(fwd.to)

\* C4 witness of the other failure: a call naming a hash that is not stored
\* was refused with BlockNotFound.
C4_WitnessNotFound == fwd.status = "failed" /\ fwd.err = "BlockNotFound"

----------------------------------------------------------------------------
(* Claims on the reverse stream, checked under SpecRev *)

RECURSIVE ChainDown(_, _)
\* The n blocks that start with h on its parent chain, deepest first.
ChainDown(h, n) == IF n = 0 \/ h = 0 THEN <<>> ELSE <<h>> \o ChainDown(store[h], n - 1)

IsBlockItem(it) == it.kind = "block"

BlocksOf(items) == SelectSeq(items, IsBlockItem)

C6_ReverseToGenesis ==
    /\ [](( rev.status = "open" /\ rev.to = 0 /\ Present(rev.from)) =>
            LET D == DepthOf(rev.from)
                expected == BlockItems(ChainDown(rev.from, D))
                got == BlocksOf(rev.out)
            IN  /\ IsPrefix(got, expected)
                /\ \A i \in 1 .. Len(got) : DepthOf(got[i].id) = D - i + 1
                /\ rev.state.finished <=> Len(got) = D
                /\ rev.ended => /\ rev.state.finished
                                /\ got = expected
                                /\ store[got[D].id] = 0)
    /\ [][rev.ended => (rev'.ended /\ rev'.out = rev.out)]_vars

\* C6 witness: a stream with no stop hash, started three blocks above genesis,
\* has been pulled to its end.
C6_Witness ==
    /\ rev.status = "open" /\ rev.to = 0 /\ rev.ended
    /\ DepthOf(rev.from) = 3 /\ Len(BlocksOf(rev.out)) = 3

----------------------------------------------------------------------------
(* Claim on both streams *)

ErrorIsTerminal(items) ==
    \A i \in 1 .. Len(items) : \A j \in (i + 1) .. Len(items) :
        items[i].kind = "err" => items[j].kind # "block"

\* C9: once a pull of a forward or of a reverse stream has returned an error,
\* no later pull of that stream yields a block.
C9_ErrorIsTerminal == ErrorIsTerminal(fwd.out) /\ ErrorIsTerminal(rev.out)

----------------------------------------------------------------------------
(* Claims on the branch sender, checked under SpecSnd *)

\* The distance send_branch walks back from its target: the depth argument,
\* or, for None (-1), the target's depth less one.
SendDistance == IF snd.depth = -1 THEN DepthOf(snd.to) - 1 ELSE snd.depth

\* The sender is walking a branch and its sink has not failed.
Sending == snd.st.mode = "branch" /\ snd.status \in {"running", "done"}

\* C2: whatever the sink answers to start_send, each item the walk has produced
\* is either accepted by the sink or held pending, once and in the order
\* produced (none dropped, none duplicated), the blocks being those of the
\* target's parent chain in increasing depth, as stream_from_to yields them
\* for the range; when the send is done the sink has accepted them all.
C2_SendKeepsEveryBlock ==
    (Sending /\ SendDistance <= DepthOf(snd.to)) =>
        LET expected == BlockItems(ChainUp(snd.to, SendDistance))
            produced == snd.st.iter.cur_depth - (DepthOf(snd.to) - SendDistance)
            held == snd.st.sent \o snd.st.pending
        IN  /\ Len(snd.st.pending) <= 1
            /\ Len(held) = produced
            /\ \A i \in 1 .. Len(held) : held[i].kind = "block" => held[i] = expected[i]
            /\ snd.status = "done" =>
                  /\ snd.st.pending = <<>> /\ snd.st.closed
                  /\ Len(snd.st.sent) = Len(expected)
                  /\ NoErrItem(snd.st.sent) => snd.st.sent = expected

\* C2 witness: the sink has accepted two blocks and answered NotReady for the
\* third and last one, which is held pending.
C2_Witness ==
    /\ Sending /\ snd.status = "running"
    /\ Len(snd.st.sent) = 2 /\ NoErrItem(snd.st.sent)
    /\ snd.st.pending = <<BlockItem(snd.to)>>

\* C5: when send_branch cannot look the target up, the walk is never started
\* and the error is the only item: it is offered until the sink accepts it, no
\* block is ever sent, and the sink is closed after it, which ends the send.
C5_LookupFailureSendsOneError ==
    /\ [](snd.st.mode = "error" =>
            /\ snd.err # "none"
            /\ snd.st.iter = NoIter
            /\ snd.status # "failed" =>
                  snd.st.sent \o snd.st.pending \o snd.st.once = <<ErrItem(snd.err)>>
            /\ Len(snd.st.sent) <= 1
            /\ \A i \in 1 .. Len(snd.st.sent) : snd.st.sent[i] = ErrItem(snd.err)
            /\ snd.st.closed => snd.st.sent = <<ErrItem(snd.err)>>
            /\ snd.status = "done" <=> snd.st.closed)
    /\ [][(snd.status = "idle" /\ snd'.status # "idle" /\ ~Present(snd'.to)) =>
            (snd'.st.mode = "error" /\ snd'.err \in {"BlockNotFound", "BackendError"})]_vars

\* C5 witness: the target was not in the store, and the sink has received the
\* BlockNotFound item and has been closed.
C5_Witness ==
    /\ snd.st.mode = "error" /\ snd.status = "done" /\ snd.st.closed
    /\ snd.st.sent = <<ErrItem("BlockNotFound")>>

\* C10 as claimed: with depth None, a send that ends without a store error has
\* pushed every block of the target's chain from genesis up to the target.
C10_SendsFromGenesis ==
    (Sending /\ snd.status = "done" /\ snd.depth = -1 /\ NoErrItem(snd.st.sent)) =>
        snd.st.sent = BlockItems(ChainUp(snd.to, DepthOf(snd.to)))

\* C10 as amended: with depth None, a send that ends without a store error has
\* pushed the blocks of the target's chain from the block after genesis
\* (depth 2) up to the target, in increasing depth; genesis is not sent.
C10_SendsAfterGenesis ==
    (Sending /\ snd.status = "done" /\ snd.depth = -1 /\ NoErrItem(snd.st.sent)) =>
        /\ snd.st.sent = BlockItems(ChainUp(snd.to, DepthOf(snd.to) - 1))
        /\ \A i \in 1 .. Len(snd.st.sent) : DepthOf(snd.st.sent[i].id) = i + 1

\* C10 witness: a send with depth None to a block of depth 3 is done and the
\* sink holds two blocks.
C10_Witness ==
    /\ Sending /\ snd.status = "done" /\ snd.depth = -1
    /\ DepthOf(snd.to) = 3 /\ Len(snd.st.sent) = 2 /\ NoErrItem(snd.st.sent)

----------------------------------------------------------------------------
(* Claims on the closest-ancestor resolver, checked under SpecFca *)

\* The positions of the checkpoints that are ancestors of the descendant.
Qualifying(checkpoints, descendant) ==
    { i \in 1 .. Len(checkpoints) : IsAncestorOf(checkpoints[i], descendant) }

DistanceTo(h, descendant) == DepthOf(descendant) - DepthOf(h)

\* C7: a call that meets no backend error returns; it returns None when no
\* checkpoint is an ancestor of the descendant (none given, all absent from
\* the store, all on other branches), and otherwise Some of a checkpoint that
\* is an ancestor, with its distance, no ancestor among the checkpoints being
\* closer.
C7_ClosestAncestor ==
    [][(fca.status = "idle" /\ fca'.status # "idle") =>
          LET cps == fca'.checkpoints
              desc == fca'.descendant
              q == Qualifying(cps, desc)
              best == fca'.found
          IN  /\ faults' = faults => fca'.status = "returned"
              /\ fca'.status = "returned" =>
                    IF q = {} THEN ~best.some
                    ELSE /\ best.some
                         /\ \E i \in q : cps[i] = best.header_hash
                         /\ best.distance = DistanceTo(best.header_hash, desc)
                         /\ \A i \in q : best.distance <= DistanceTo(cps[i], desc)]_vars

\* C7 witness: of two checkpoints that are both ancestors, the first at
\* distance 2 and the second at distance 1, the call returned the second.
C7_Witness ==
    /\ fca.status = "returned" /\ Len(fca.checkpoints) = 2
    /\ IsAncestorOf(fca.checkpoints[1], fca.descendant)
    /\ DistanceTo(fca.checkpoints[1], fca.descendant) = 2
    /\ fca.found = SomeAncestor(fca.checkpoints[2], 1)

\* C7 witness of the ignored checkpoints: of an absent checkpoint and one on
\* another branch, neither was returned.
C7_WitnessNone ==
    /\ fca.status = "returned" /\ Len(fca.checkpoints) = 2 /\ ~fca.found.some
    /\ Present(fca.descendant)
    /\ ~Present(fca.checkpoints[1])
    /\ Present(fca.checkpoints[2])

\* C8: find_closest_ancestor passes over a checkpoint that is absent from the
\* store, but when the descendant is absent the BlockNotFound of the ancestry
\* query is returned to the caller as an error.
C8_DescendantNotFoundSurfaces ==
    [][(fca.status = "idle" /\ fca'.status # "idle" /\ faults' = faults) =>
          /\ Present(fca'.descendant) => fca'.status = "returned"
          /\ (~Present(fca'.descendant) /\ fca'.checkpoints # <<>>) =>
                (fca'.status = "failed" /\ fca'.err = "BlockNotFound")]_vars

\* C12: a call in which an ancestry query fails with a store error other than
\* NotFound returns that error and no ancestor, whichever checkpoints came
\* before the failing query.
C12_BackendErrorAborts ==
    [][(fca.status = "idle" /\ fca'.status # "idle" /\ fca'.fault # 0) =>
          /\ fca'.status = "failed"
          /\ fca'.err = "BackendError"
          /\ ~fca'.found.some]_vars

\* C12 witness: the second ancestry query failed after the first checkpoint
\* had qualified, and the call failed with the backend error.
C12_Witness ==
    /\ fca.status = "failed" /\ fca.err = "BackendError" /\ fca.fault = 2
    /\ IsAncestorOf(fca.checkpoints[1], fca.descendant)

\* The first of the checkpoints at the least distance from the descendant.
EarliestClosest(checkpoints, descendant) ==
    LET q == Qualifying(checkpoints, descendant)
        least == CHOOSE i \in q :
                    \A j \in q : DistanceTo(checkpoints[i], descendant)
                                    <= DistanceTo(checkpoints[j], descendant)
    IN  CHOOSE i \in q :
            /\ DistanceTo(checkpoints[i], descendant) = DistanceTo(checkpoints[least], descendant)
            /\ \A j \in q : DistanceTo(checkpoints[j], descendant)
                               = DistanceTo(checkpoints[least], descendant) => i <= j

\* C18: the ancestor a call returns was assigned by the iteration of the
\* earliest checkpoint among those at the minimum distance; a later checkpoint
\* at the same distance never replaces it.
C18_EarliestWinsTies ==
    [][(fca.status = "idle" /\ fca'.status = "returned" /\ fca'.found.some) =>
          /\ fca'.at = EarliestClosest(fca'.checkpoints, fca'.descendant)
          /\ fca'.checkpoints[fca'.at] = fca'.found.header_hash]_vars

\* C18 witness: two checkpoints both at the minimum distance 1, and the call
\* returned the first.
C18_Witness ==
    /\ fca.status = "returned" /\ Len(fca.checkpoints) = 2 /\ fca.found.some
    /\ Qualifying(fca.checkpoints, fca.descendant) = {1, 2}
    /\ DistanceTo(fca.checkpoints[1], fca.descendant) = 1
    /\ DistanceTo(fca.checkpoints[2], fca.descendant) = 1
    /\ fca.at = 1

----------------------------------------------------------------------------
(* Claims on the walk state, checked on the sender's walk under SpecSnd: *)
(* send_branch builds the walk for any distance, stream_from_to only for *)
(* the distances between an ancestor and its descendant.                 *)

\* The frames of s strictly decrease in depth from the bottom of the stack to
\* its top, and the current depth is at most the depth of the top frame.
WalkStateOrdered(s) ==
    LET n == Len(s.pending_infos) IN
    /\ \A i \in 1 .. n - 1 : s.pending_infos[i].depth > s.pending_infos[i + 1].depth
    /\ n > 0 => s.cur_depth <= s.pending_infos[n].depth

\* The items the sink has accepted or the sender holds pending.
Held == snd.st.sent \o snd.st.pending

\* C14: in every state of a walk, after construction and after every
\* get_next, the frame stack strictly decreases in depth bottom to top and
\* the current depth is at most the depth of the top frame.
C14_WalkStateOrdered == snd.st.mode = "branch" => WalkStateOrdered(snd.st.iter)

\* C19: get_next never panics: whenever has_next holds the frame stack is
\* not empty, its bottom frame is the target and its top frame is deeper
\* than the current depth; the stack is empty only once the walk has reached
\* the target's depth, the call that popped the target having produced the
\* target block or the error of fetching it.
C19_GetNextNeverPanics ==
    snd.st.mode = "branch" =>
        LET s == snd.st.iter
            n == Len(s.pending_infos)
        IN  /\ snd.status # "panicked"
            /\ has_next(s) =>
                  /\ n > 0
                  /\ s.pending_infos[1].block_hash = snd.to
                  /\ s.pending_infos[n].depth > s.cur_depth
            /\ n = 0 =>
                  /\ s.cur_depth = s.to_depth
                  /\ Sending =>
                        /\ Held # <<>>
                        /\ Held[Len(Held)] \in {BlockItem(snd.to), ErrItem("BackendError")}

\* C19 witness: a get_next failed part-way through the walk, leaving two or
\* more frames on the stack, and the walk goes on.
C19_Witness ==
    /\ Sending /\ snd.status = "running" /\ has_next(snd.st.iter)
    /\ Len(snd.st.iter.pending_infos) >= 2
    /\ \E i \in 1 .. Len(Held) : Held[i] = ErrItem("BackendError")

\* C19 witness of the end of the walk: the target has been popped and sent.
C19_WitnessTargetPopped ==
    /\ Sending /\ snd.st.iter.pending_infos = <<>>
    /\ Len(Held) >= 2 /\ Held[Len(Held)] = BlockItem(snd.to)

\* C20: every walk a public operation builds has a distance of at most the
\* target's depth: the subtraction in BlockIterState::new neither panics nor
\* wraps, and the walk starts at depth(to) - distance.
C20_DistanceWithinDepth ==
    /\ ~(snd.status = "panicked" /\ snd.st.mode = "none")
    /\ snd.st.mode = "branch" =>
          /\ SendDistance <= DepthOf(snd.to)
          /\ snd.st.iter.cur_depth >= DepthOf(snd.to) - SendDistance
          /\ snd.st.iter.cur_depth <= DepthOf(snd.to)

----------------------------------------------------------------------------
(* Claims on the sender's protocol, checked under SpecSnd *)

\* What a step added to the sender's history.
NewEvents == SubSeq(snd'.st.log, Len(snd.st.log) + 1, Len(snd'.st.log))

\* A poll of the future that walks the branch.
BranchPoll == snd.status = "running" /\ snd.st.mode = "branch" /\ snd'.st # snd.st

Occurrences(events, e) == Cardinality({ i \in 1 .. Len(events) : events[i] = e })

\* C15: every get_next comes directly after a flush of the sink that
\* completed Ready (so after the acceptance of every earlier item); a poll
\* calls get_next at most once, and when the item it fetched is accepted
\* while the walk has more, the poll ends there with the send still running.
C15_FlushThenOneFetch ==
    /\ [](\A i \in 1 .. Len(snd.st.log) :
            snd.st.log[i] = "fetch" => (i > 1 /\ snd.st.log[i - 1] = "flush"))
    /\ [][BranchPoll =>
            LET new == NewEvents IN
            /\ Occurrences(new, "fetch") <= 1
            /\ \A j \in 1 .. Len(new) :
                  (new[j] = "fetch" /\ has_next(snd'.st.iter)) =>
                      /\ snd'.status = IF new[Len(new)] = "fail" THEN "failed" ELSE "running"
                      /\ j = Len(new) \/ (j + 1 = Len(new) /\ new[j + 1] \in {"accept", "fail"})
                      /\ j = Len(new) <=> snd'.st.pending # <<>>]_vars

\* C15 witness: a second block was fetched, after the first was accepted and
\* the sink flushed, and was accepted with more of the walk to come.
C15_Witness ==
    /\ Sending /\ snd.status = "running" /\ has_next(snd.st.iter)
    /\ snd.st.log = <<"flush", "fetch", "accept", "flush", "fetch", "accept">>

\* The number of error items among the items.
ErrItems(items) == Cardinality({ i \in 1 .. Len(items) : items[i].kind = "err" })

\* C16: every error get_next returned during a send is among the items the
\* sink accepted or the sender holds pending, as the item Err(error); the
\* send fails only when the sink answered with an error; a poll that fetched
\* an error leaves the send running when the walk has more and cannot leave
\* it done otherwise than with the walk exhausted.
C16_WalkErrorSentInBand ==
    /\ [](snd.st.mode = "branch" =>
            /\ snd.status = "failed" =>
                  (snd.st.log # <<>> /\ snd.st.log[Len(snd.st.log)] = "fail")
            /\ Sending =>
                  /\ ErrItems(Held) = faults
                  /\ \A i \in 1 .. Len(Held) :
                        Held[i].kind = "err" => Held[i] = ErrItem("BackendError"))
    /\ [][(BranchPoll /\ faults' > faults) =>
            /\ snd'.status \in {"running", "done", "failed"}
            /\ snd'.status = "failed" => snd'.st.log[Len(snd'.st.log)] = "fail"
            /\ (has_next(snd'.st.iter) /\ snd'.status # "failed") => snd'.status = "running"
            /\ snd'.status = "done" => ~has_next(snd'.st.iter)]_vars

\* C16 witness: the sink accepted the error of a failed get_next and then the
\* next block of the walk, and the send is done.
C16_Witness ==
    /\ Sending /\ snd.status = "done" /\ Len(snd.st.sent) = 2
    /\ snd.st.sent[1] = ErrItem("BackendError")
    /\ snd.st.sent[2] = BlockItem(snd.to)

\* C17: under the fairness of SpecSndFair a send that walks a branch ends: it
\* is done, or it failed on an error answer of the sink; until then a poll
\* that changes the sender's state is always possible.  The sink is closed
\* once, as the last thing the sender does to it: when the send is done the
\* walk is exhausted, nothing is pending, every item fetched has been
\* accepted, and nothing is sent after the close.
C17_SendTerminatesClosed ==
    /\ BranchRunning ~> (snd.status \in {"done", "failed"})
    /\ []BranchPollEnabled
    /\ [](snd.st.mode = "branch" =>
            LET log == snd.st.log IN
            /\ \A i \in 1 .. Len(log) : log[i] = "close" => i = Len(log)
            /\ snd.st.closed <=> (log # <<>> /\ log[Len(log)] = "close")
            /\ snd.status = "done" <=> snd.st.closed
            /\ snd.st.closed =>
                  /\ ~has_next(snd.st.iter) /\ snd.st.pending = <<>>
                  /\ Occurrences(log, "accept") = Occurrences(log, "fetch")
                  /\ Len(snd.st.sent) = Occurrences(log, "fetch"))
    /\ [][snd.st.closed => snd'.st = snd.st]_vars

\* C17 witness: a send of three blocks is done and its sink closed.
C17_Witness ==
    /\ Sending /\ snd.status = "done" /\ snd.st.closed
    /\ Len(snd.st.sent) = 3 /\ NoErrItem(snd.st.sent)
    /\ Occurrences(snd.st.log, "close") = 1

----------------------------------------------------------------------------
(* Claims on two forward streams, checked under SpecStreams *)

RECURSIVE RunAlone(_)
\* The items a stream in state s yields when it alone is pulled to its end
\* and the store answers every call.
RunAlone(s) ==
    IF ~has_next(s) THEN <<>>
    ELSE LET g == get_next(s, 0)
         IN  IF g.kind = "panic" THEN <<>> ELSE <<ItemOf(g)>> \o RunAlone(g.state)

\* What the stream opened for r's range yields if run alone.
Alone(r) == RunAlone(stream_from_to(r.from, r.to, 0).val)

C11_WitnessEnded ==
    /\ streams[1].status = "open" /\ streams[1].ended
    /\ streams[2].status = "open" /\ streams[2].ended
    /\ streams[1].to = streams[2].to
    /\ Len(streams[1].out) = 2 /\ NoErrItem(streams[1].out)
    /\ streams[2].out = <<BlockItem(streams[2].to)>>

----------------------------------------------------------------------------
(* Claims on the leadership logs, checked under SpecLogs *)

\* The expiration time the queue holds for the entry of id.
ExpiresAt(l, id) ==
    LET own == { e \in l.expirations : e.key = l.entries[id].key }
    IN  IF own = {} THEN -1 ELSE (CHOOSE e \in own : TRUE).at

\* C13: poll_purge never removes a log before the time promised for it, its
\* scheduled time plus ttl and ttl after its last change, whatever the
\* sequence of insert, mark_wake, set_status, mark_finished and poll_purge;
\* and each change of a log leaves it expiring ttl after the change.
C13_LogLivesItsTtl ==
    [][\A id \in LogIds :
          /\ (logs.entries[id].present /\ ~logs'.entries[id].present) =>
                logs.now >= logs.entries[id].promised
          /\ (logs.entries[id].present /\ logs'.entries[id].present
                /\ logs'.entries[id].key = logs.entries[id].key
                /\ logs'.entries[id].log # logs.entries[id].log) =>
                ExpiresAt(logs', id) = logs.now + Ttl]_vars

\* C21: every mark_wake, set_status or mark_finished made through a handle
\* that insert returned finds the entry of its id: the unimplemented!()
\* branch is never taken, whatever inserts and purges came before the call.
C21_HandleFindsEntry == logs.status # "panicked"

====
